---------------------------- MODULE Spec2Model ----------------------------
(***************************************************************************)
(* Model of the Ollama inference bridge                                    *)
(* (src/src/openai_responses/api/inference/ollama.py).                     *)
(*                                                                         *)
(* OllamaModelConnection keeps a registry of OlmSession objects.  A new    *)
(* turn on a session starts a producer thread (run) that reads text        *)
(* fragments from the backend stream, re-encodes the accumulated text and  *)
(* publishes the new token ids into the session's deque; callers pull one  *)
(* token per infer_next_token call.                                        *)
(*                                                                         *)
(* Caller threads and producer threads are interleaved at the granularity  *)
(* of their accesses to shared state: every block under _buffer_lock or    *)
(* _sessions_lock is one step, every unlocked flag access is a step of     *)
(* its own (adjacent unlocked assignments of _reset_stream_state are taken *)
(* together).                                                              *)
(***************************************************************************)
EXTENDS Integers, Sequences, FiniteSets, TLC

(***************************************************************************)
(* Bounds of the model.                                                    *)
(***************************************************************************)
NumCallers == 2
NumSessionIds == 2
MaxObjs == 2
MaxThreads == 2
MaxCalls == 3
MaxChunks == 2

(***************************************************************************)
(* Program constants.                                                      *)
(***************************************************************************)
EOS_TOKEN == 200002
\* the two token ids the repository's test expects for "Hi" and " there"
TokHi == 12194
TokThere == 1354

Callers == 1..NumCallers
SessionIds == 1..NumSessionIds
Objs == 1..MaxObjs
Threads == 1..MaxThreads
\* session_id: Optional[str] = None
NoSessionId == 0

(***************************************************************************)
(* Text and the tokenizer.  A text is a sequence of units; the unit "t"    *)
(* stands for the text " there".  encode is a greedy longest-match         *)
(* tokenizer: "H" followed by "i" is the single token of "Hi", so encode   *)
(* is not concatenative (encode("H") \o encode("i") # encode("Hi")).       *)
(***************************************************************************)
UnitTok(u) == CASE u = "H" -> 39
                [] u = "i" -> 72
                [] u = "t" -> TokThere

RECURSIVE Encode(_)
Encode(text) ==
    IF text = <<>> THEN <<>>
    ELSE IF Len(text) >= 2 /\ text[1] = "H" /\ text[2] = "i"
         THEN <<TokHi>> \o Encode(SubSeq(text, 3, Len(text)))
         ELSE <<UnitTok(text[1])>> \o Encode(Tail(text))

(***************************************************************************)
(* The backend stream: client.generate(..., stream=True) is a lazy         *)
(* sequence of chunks {response, done}; after its chunks the stream stops  *)
(* (StopIteration), raises, stalls forever, or keeps delivering empty      *)
(* non-final fragments forever.                                            *)
(***************************************************************************)
Chunk(r, s, d) == [response |-> r, isstr |-> s, done |-> d]
Script(cs, e) == [chunks |-> cs, end |-> e]

Responses == {<<>>, <<"H">>, <<"i">>, <<"H", "i">>, <<"t">>}
Chunks == {Chunk(r, TRUE, d) : r \in Responses, d \in BOOLEAN}

RECURSIVE SeqsUpTo(_, _)
SeqsUpTo(S, n) ==
    IF n = 0 THEN {<<>>}
    ELSE LET shorter == SeqsUpTo(S, n - 1)
         IN  shorter \cup {Append(q, x) : q \in {p \in shorter : Len(p) = n - 1}, x \in S}

\* every stream of at most MaxChunks chunks
ShortScripts ==
    {Script(cs, e) : cs \in SeqsUpTo(Chunks, MaxChunks), e \in {"stop", "raise", "stall"}}

\* the stream of test_infer_sequence_of_tokens_and_eos
HiThere == Script(<<Chunk(<<"H", "i">>, TRUE, FALSE), Chunk(<<"t">>, TRUE, FALSE),
                    Chunk(<<>>, TRUE, TRUE)>>, "stop")
\* the stream of test_error_handling_on_generate_exception
RaiseAtOnce == Script(<<>>, "raise")
\* a stream that never ends and never marks a fragment final: one fragment of
\* text, then empty fragments for ever (the empty fragments are those of
\* test_stream_lifetime_and_close)
Endless == Script(<<Chunk(<<"t">>, TRUE, FALSE)>>, "loop")
Stalled == Script(<<>>, "stall")
TokThenRaise == Script(<<Chunk(<<"t">>, TRUE, FALSE)>>, "raise")
\* a stream that ends without a final chunk; its second chunk carries no text
NoFinal == Script(<<Chunk(<<"H">>, TRUE, FALSE), Chunk(<<>>, FALSE, FALSE)>>, "stop")

\* a one-fragment stream whose only chunk is final
OneTok == Script(<<Chunk(<<"t">>, TRUE, TRUE)>>, "stop")

Scenarios == {OneTok, Endless, Stalled, TokThenRaise}

TurnScripts == ShortScripts \cup {HiThere, NoFinal}

(***************************************************************************)
(* State.                                                                  *)
(***************************************************************************)
VARIABLES
    sessions,          \* OllamaModelConnection._sessions: <<[id, obj]>> in insertion order
    sessions_lock,     \* holder of _sessions_lock (a caller), 0 when free
    nobj,              \* number of OlmSession objects constructed so far
    token_buffer,      \* OlmSession._token_buffer, each id with the thread that appended it
    stream_done,       \* OlmSession._stream_done (the Event's flag)
    stream_error,      \* OlmSession._stream_error: 0 (None) or the thread whose exception it is
    close_connection,  \* OlmSession._close_connection (the Event's flag)
    stream_thread,     \* OlmSession._stream_thread: 0 (None) or a thread
    nthr,              \* number of producer threads started so far
    thr,               \* producer threads: the locals and position of run()
    pc,                \* position of every caller
    cur,               \* the call a caller is executing
    ret,               \* what a caller's last call returned, until its next call
    ncalls,            \* number of calls made so far
    observing,         \* whether hist is kept
    hist               \* observer: per session object, what its pulls returned so far,
                       \* in order; <<>> forever where nothing is observed (Init)

vars == <<sessions, sessions_lock, nobj, token_buffer, stream_done, stream_error,
          close_connection, stream_thread, nthr, thr, pc, cur, ret, ncalls, observing,
          hist>>

sessVars == <<token_buffer, stream_done, stream_error, close_connection, stream_thread>>
regVars == <<sessions, sessions_lock, nobj>>
thrVars == <<nthr, thr>>

\* the locals of a call; turn and drained are what the pull saw when it tested
\* _stream_error: the session's producer, and whether the turn was done with
\* an empty buffer
NoCall == [op |-> "none", sid |-> 0, obj |-> 0, new_request |-> FALSE,
           todo |-> <<>>, all |-> FALSE, thread |-> 0, turn |-> 0, drained |-> FALSE]
NoRet == [kind |-> "none", tok |-> 0, src |-> 0, obj |-> 0, new_request |-> FALSE,
          thread |-> 0, turn |-> 0, drained |-> FALSE]
Unborn == [pc |-> "unborn", sid |-> 0, obj |-> 0, script |-> Script(<<>>, "stop"), pos |-> 1,
           accum_text |-> <<>>, last_len |-> 0]

Init ==
    /\ sessions = <<>>
    /\ sessions_lock = 0
    /\ nobj = 0
    /\ token_buffer = [o \in Objs |-> <<>>]
    /\ stream_done = [o \in Objs |-> FALSE]
    /\ stream_error = [o \in Objs |-> 0]
    /\ close_connection = [o \in Objs |-> FALSE]
    /\ stream_thread = [o \in Objs |-> 0]
    /\ nthr = 0
    /\ thr = [t \in Threads |-> Unborn]
    /\ pc = [c \in Callers |-> "idle"]
    /\ cur = [c \in Callers |-> NoCall]
    /\ ret = [c \in Callers |-> NoRet]
    /\ ncalls = 0
    /\ hist = [o \in Objs |-> <<>>]
    /\ observing = FALSE

(***************************************************************************)
(* Helpers on the deque and the registry.                                  *)
(***************************************************************************)
Ids(buf) == [i \in 1..Len(buf) |-> buf[i].id]
Tagged(toks, t) == [i \in 1..Len(toks) |-> [id |-> toks[i], src |-> t]]
\* toks[last_len:]
Suffix(toks, last_len) == SubSeq(toks, last_len + 1, Len(toks))

\* deque.extend, and deque.append of one element
Extend(buf, items) == buf \o items

Lookup(sid) ==
    IF \E i \in 1..Len(sessions) : sessions[i].id = sid
    THEN (CHOOSE e \in {sessions[i] : i \in 1..Len(sessions)} : e.id = sid).obj
    ELSE 0
\* dict.pop(session_id, None): the dict without the key
Without(sid) == SelectSeq(sessions, LAMBDA e : e.id # sid)
Values == [i \in 1..Len(sessions) |-> sessions[i].obj]

\* a producer thread that has been started and has not returned from run()
Alive(t) == thr[t].pc \notin {"unborn", "dead"}

(***************************************************************************)
(* The producer thread: run() of OlmSession._start_stream.                 *)
(***************************************************************************)
\* if toks and len(toks) > last_len
HasNew(toks, last_len) == toks # <<>> /\ Len(toks) > last_len
\* (the whole re-encoding published again instead of its new suffix)
NewToks_Whole(toks, last_len) == toks
\* new_toks = toks[last_len:]
NewToks(toks, last_len) == Suffix(toks, last_len)

\* self._token_available.notify_all(): every caller inside
\* _token_available.wait() of session o returns from it to the loop test
NotifyAll(o) ==
    [c \in Callers |-> IF pc[c] = "sleep" /\ cur[c].obj = o THEN "wait" ELSE pc[c]]

\* (a set() that leaves the flag as it was)
SetEvent_Lost(ev, o) == ev
\* threading.Event.set() on the Event of session o
SetEvent(ev, o) == [ev EXCEPT ![o] = TRUE]

\* (the flag never looked at)
Cancelled_Never(o) == FALSE
\* if self._close_connection.is_set()
Cancelled(o) == close_connection[o]

\* One iteration of the for loop up to the chunk.done test, or the end of the
\* stream: StopIteration (then _stream_done.set()), or an exception (then
\* _stream_error = e).
run_chunk(t) ==
    /\ thr[t].pc = "iter"
    /\ LET me == thr[t]
           o == me.obj
           n == Len(me.script.chunks)
       IN  IF me.pos <= n \/ me.script.end = "loop"
           THEN LET chunk == IF me.pos <= n THEN me.script.chunks[me.pos]
                                            ELSE Chunk(<<>>, TRUE, FALSE)
                    accum == IF chunk.isstr THEN me.accum_text \o chunk.response
                                            ELSE me.accum_text
                    toks == Encode(accum)
                    publish == chunk.isstr /\ HasNew(toks, me.last_len)
                IN  IF Cancelled(o)
                    THEN /\ token_buffer' = [token_buffer EXCEPT ![o] =
                                Extend(@, Tagged(<<EOS_TOKEN>>, t))]
                         /\ pc' = NotifyAll(o)
                         /\ thr' = [thr EXCEPT ![t].pc = "setdone"]
                         /\ UNCHANGED <<stream_done, stream_error>>
                    ELSE /\ token_buffer' = [token_buffer EXCEPT ![o] =
                                IF publish
                                THEN Extend(@, Tagged(NewToks(toks, me.last_len), t))
                                ELSE @]
                         /\ pc' = IF publish THEN NotifyAll(o) ELSE pc
                         /\ thr' = [thr EXCEPT ![t] =
                                [me EXCEPT !.accum_text = accum,
                                           !.last_len = IF publish THEN Len(toks) ELSE @,
                                           !.pos = IF me.pos <= n THEN @ + 1 ELSE @,
                                           !.pc = IF chunk.done THEN "final" ELSE "iter"]]
                         /\ UNCHANGED <<stream_done, stream_error>>
           ELSE CASE me.script.end = "stop" ->
                         /\ stream_done' = SetEvent(stream_done, o)
                         /\ thr' = [thr EXCEPT ![t].pc = "dead"]
                         /\ UNCHANGED <<token_buffer, stream_error, pc>>
                  [] me.script.end = "raise" ->
                         /\ stream_error' = [stream_error EXCEPT ![o] = t]
                         /\ thr' = [thr EXCEPT ![t].pc = "setdone"]
                         /\ UNCHANGED <<token_buffer, stream_done, pc>>
                  [] OTHER -> FALSE
    /\ UNCHANGED <<regVars, close_connection, stream_thread, nthr, cur, ret, ncalls, observing, hist>>

\* if chunk.done: append EOS_TOKEN under the lock
run_final(t) ==
    /\ thr[t].pc = "final"
    /\ token_buffer' = [token_buffer EXCEPT ![thr[t].obj] =
            Extend(@, Tagged(<<EOS_TOKEN>>, t))]
    /\ pc' = NotifyAll(thr[t].obj)
    /\ thr' = [thr EXCEPT ![t].pc = "iter"]
    /\ UNCHANGED <<regVars, stream_done, stream_error, close_connection, stream_thread,
                   nthr, cur, ret, ncalls, observing, hist>>

\* (run() returning without _stream_done.set())
run_done_NotSet(t) ==
    /\ thr[t].pc = "setdone"
    /\ thr' = [thr EXCEPT ![t].pc = "dead"]
    /\ UNCHANGED <<regVars, sessVars, nthr, pc, cur, ret, ncalls, observing, hist>>

\* self._stream_done.set() after break and in the except clause
run_done(t) ==
    /\ thr[t].pc = "setdone"
    /\ stream_done' = SetEvent(stream_done, thr[t].obj)
    /\ thr' = [thr EXCEPT ![t].pc = "dead"]
    /\ UNCHANGED <<regVars, token_buffer, stream_error, close_connection, stream_thread,
                   nthr, pc, cur, ret, ncalls, observing, hist>>

(***************************************************************************)
(* OlmSession: close, _reset_stream_state, _start_stream, infer_next_token.*)
(***************************************************************************)
\* The truth value of `self._stream_done` in `not self._stream_done`: the
\* Event object itself, which defines neither __bool__ nor __len__.
StreamDoneTruthy(o) == TRUE

\* while self._stream_thread and not self._stream_done
CloseLoopCond(o) == stream_thread[o] # 0 /\ ~StreamDoneTruthy(o)

\* the deque after _token_buffer.clear()
Cleared(buf) == <<>>

Return(c, r) ==
    /\ ret' = [ret EXCEPT ![c] = r]
    /\ pc' = [pc EXCEPT ![c] = "idle"]
    /\ cur' = [cur EXCEPT ![c] = NoCall]

\* close(): the loop test; in the loop, _close_connection.set() and
\* join(timeout=0.5), which returns when the thread has ended or the timeout
\* has passed; after the loop, the locked clear() of _reset_stream_state.
sess_close(c) ==
    /\ pc[c] \in {"close", "join"}
    /\ LET o == cur[c].obj
       IN  IF pc[c] = "join"
           THEN /\ pc' = [pc EXCEPT ![c] = "close"]
                /\ UNCHANGED <<token_buffer, close_connection>>
           ELSE IF CloseLoopCond(o)
           THEN /\ close_connection' = [close_connection EXCEPT ![o] = TRUE]
                /\ pc' = [pc EXCEPT ![c] = "join"]
                /\ UNCHANGED token_buffer
           ELSE /\ token_buffer' = [token_buffer EXCEPT ![o] = Cleared(@)]
                /\ pc' = [pc EXCEPT ![c] = "reset"]
                /\ UNCHANGED close_connection
    /\ UNCHANGED <<regVars, stream_done, stream_error, stream_thread, thrVars,
                   cur, ret, ncalls, observing, hist>>

\* The rest of _reset_stream_state, and what follows the session's close():
\* _start_stream for a new turn; for the registry's close operations the next
\* session to close, or sessions.clear() and the release of _sessions_lock.
reset_stream_state(c) ==
    /\ pc[c] = "reset"
    /\ LET o == cur[c].obj
       IN  /\ close_connection' = [close_connection EXCEPT ![o] = FALSE]
           /\ stream_done' = [stream_done EXCEPT ![o] = FALSE]
           /\ stream_thread' = [stream_thread EXCEPT ![o] = 0]
           /\ stream_error' = [stream_error EXCEPT ![o] = 0]
    /\ IF cur[c].op = "infer"
       THEN /\ pc' = [pc EXCEPT ![c] = "start"]
            /\ UNCHANGED <<sessions, sessions_lock, cur, ret>>
       ELSE IF cur[c].todo # <<>>
       THEN /\ cur' = [cur EXCEPT ![c].obj = Head(cur[c].todo),
                                  ![c].todo = Tail(cur[c].todo)]
            /\ pc' = [pc EXCEPT ![c] = "close"]
            /\ UNCHANGED <<sessions, sessions_lock, ret>>
       ELSE /\ sessions' = IF cur[c].all THEN <<>> ELSE sessions
            /\ sessions_lock' = 0
            /\ Return(c, [NoRet EXCEPT !.kind = "closed"])
    /\ UNCHANGED <<nobj, token_buffer, thrVars, ncalls, observing, hist>>

\* _start_stream: t.start(); self._stream_thread = t
start_stream(c, script) ==
    /\ pc[c] = "start"
    /\ LET t == nthr + 1
           o == cur[c].obj
       IN  /\ nthr' = t
           /\ thr' = [thr EXCEPT ![t] = [Unborn EXCEPT !.pc = "iter", !.sid = cur[c].sid, !.obj = o,
                                                       !.script = script]]
           /\ stream_thread' = [stream_thread EXCEPT ![o] = t]
           /\ cur' = [cur EXCEPT ![c].thread = t]
    /\ pc' = [pc EXCEPT ![c] = "errchk"]
    /\ UNCHANGED <<regVars, token_buffer, stream_done, stream_error, close_connection,
                   ret, ncalls, observing, hist>>

Drained(o) == stream_done[o] /\ token_buffer[o] = <<>>

PullRet(c, kind, tok, src, turn, drained) ==
    [kind |-> kind, tok |-> tok, src |-> src, obj |-> cur[c].obj,
     new_request |-> cur[c].new_request, thread |-> cur[c].thread,
     turn |-> turn, drained |-> drained]

Recorded(h, r) ==
    IF observing THEN Append(h, [kind |-> r.kind, tok |-> r.tok, src |-> r.src]) ELSE h

\* if self._stream_error is not None: raise RuntimeError(...)
check_error(c) ==
    /\ pc[c] = "errchk"
    /\ LET o == cur[c].obj
       IN  IF stream_error[o] # 0
           THEN LET r == PullRet(c, "error", 0, stream_error[o], stream_thread[o],
                                     Drained(o))
                IN  /\ Return(c, r)
                    /\ hist' = [hist EXCEPT ![o] = Recorded(@, r)]
           ELSE /\ pc' = [pc EXCEPT ![c] = "wait"]
                /\ cur' = [cur EXCEPT ![c].turn = stream_thread[o],
                                      ![c].drained = Drained(o)]
                /\ UNCHANGED <<ret, hist>>
    /\ UNCHANGED <<regVars, sessVars, thrVars, ncalls, observing>>

\* (no wait at all: the pull goes on whether or not anything is ready)
Waiting_Never(o) == FALSE
\* while not self._stream_done.is_set() and not self._token_buffer
Waiting(o) == ~stream_done[o] /\ token_buffer[o] = <<>>

\* The loop test holds: the caller enters _token_available.wait(timeout=0.1)
\* and sleeps there until notify_all or the timeout.
cond_wait(c) ==
    /\ pc[c] = "wait"
    /\ Waiting(cur[c].obj)
    /\ pc' = [pc EXCEPT ![c] = "sleep"]
    /\ UNCHANGED <<regVars, sessVars, thrVars, cur, ret, ncalls, observing, hist>>

\* wait(timeout=0.1) returns because the timeout has passed
cond_timeout(c) ==
    /\ pc[c] = "sleep"
    /\ pc' = [pc EXCEPT ![c] = "wait"]
    /\ UNCHANGED <<regVars, sessVars, thrVars, cur, ret, ncalls, observing, hist>>

\* The loop test fails and the wait loop is left.
wait_token(c) ==
    /\ pc[c] = "wait"
    /\ ~Waiting(cur[c].obj)
    /\ pc' = [pc EXCEPT ![c] = "take"]
    /\ UNCHANGED <<regVars, sessVars, thrVars, cur, ret, ncalls, observing, hist>>

\* _token_buffer.popleft(): the element returned and the deque left
Popped(buf) == [tok |-> Head(buf), rest |-> Tail(buf)]

\* with self._buffer_lock: if self._token_buffer: return popleft();
\* return EOS_TOKEN
take_token(c) ==
    /\ pc[c] = "take"
    /\ LET o == cur[c].obj
           r == IF token_buffer[o] # <<>>
                THEN PullRet(c, "token", Popped(token_buffer[o]).tok.id,
                             Popped(token_buffer[o]).tok.src, cur[c].turn, cur[c].drained)
                ELSE PullRet(c, "token", EOS_TOKEN, 0, cur[c].turn, cur[c].drained)
       IN  /\ token_buffer' = [token_buffer EXCEPT ![o] =
                IF @ # <<>> THEN Popped(@).rest ELSE @]
           /\ Return(c, r)
           /\ hist' = [hist EXCEPT ![o] = Recorded(@, r)]
    /\ UNCHANGED <<regVars, stream_done, stream_error, close_connection, stream_thread,
                   thrVars, ncalls, observing>>

(***************************************************************************)
(* OllamaModelConnection: infer_next_token, close_session, close.          *)
(***************************************************************************)
\* the calls under way that are still to start a producer thread
Starting == {c \in Callers : cur[c].op = "infer" /\ cur[c].new_request /\ cur[c].thread = 0}

\* (no `if session_id not in self._sessions`: an OlmSession made on every call)
GetOrCreate_Always(sid) ==
    [reg |-> Append(sessions, [id |-> sid, obj |-> nobj + 1]), obj |-> nobj + 1, made |-> 1]
\* (a popped OlmSession object handed out again instead of a new one)
GetOrCreate_Reuse(sid) ==
    IF Lookup(sid) # 0
    THEN [reg |-> sessions, obj |-> Lookup(sid), made |-> 0]
    ELSE IF nobj > 0
    THEN [reg |-> Append(sessions, [id |-> sid, obj |-> nobj]), obj |-> nobj, made |-> 0]
    ELSE [reg |-> Append(sessions, [id |-> sid, obj |-> 1]), obj |-> 1, made |-> 1]
\* _get_or_create_session under _sessions_lock: the registry and the object
GetOrCreate(sid) ==
    IF Lookup(sid) # 0
    THEN [reg |-> sessions, obj |-> Lookup(sid), made |-> 0]
    ELSE [reg |-> Append(sessions, [id |-> sid, obj |-> nobj + 1]),
          obj |-> nobj + 1, made |-> 1]

\* (_sessions_lock still held by the caller after _get_or_create_session)
LockAfterGet_Held(c) == c
\* the holder of _sessions_lock when the with block of
\* _get_or_create_session has been left: nobody
LockAfterGet(c) == 0

\* (the test never taken: a missing id is looked up like any other key)
SessionIdMissing_Never(sid) == FALSE
\* if session_id is None
SessionIdMissing(sid) == sid = NoSessionId

\* The call up to the session's infer_next_token: the session_id test, then
\* _get_or_create_session; with new_request the session's close() is next.
\* A call is made only while the model has an object and a thread left for
\* it, so that no call under way is ever held up by a bound.
infer_next_token(c, sid, new_request) ==
    /\ pc[c] = "idle"
    /\ ncalls < MaxCalls
    /\ (sid # NoSessionId /\ new_request) => nthr + Cardinality(Starting) < MaxThreads
    /\ ncalls' = ncalls + 1
    /\ IF SessionIdMissing(sid)
       THEN /\ Return(c, [NoRet EXCEPT !.kind = "usage", !.new_request = new_request])
            /\ UNCHANGED regVars
       ELSE /\ sessions_lock = 0
            /\ Lookup(sid) # 0 \/ nobj < MaxObjs
            /\ LET g == GetOrCreate(sid)
               IN  /\ sessions' = g.reg
                   /\ nobj' = nobj + g.made
                   /\ cur' = [cur EXCEPT ![c] =
                        [NoCall EXCEPT !.op = "infer", !.sid = sid, !.obj = g.obj,
                                       !.new_request = new_request]]
            /\ pc' = [pc EXCEPT ![c] = IF new_request THEN "close" ELSE "errchk"]
            /\ ret' = [ret EXCEPT ![c] = NoRet]
            /\ sessions_lock' = LockAfterGet(c)
    /\ UNCHANGED <<sessVars, thrVars, observing, hist>>

\* with self._sessions_lock: sess = self._sessions.pop(session_id, None);
\* if sess: sess.close()
close_session(c, sid) ==
    /\ pc[c] = "idle"
    /\ ncalls < MaxCalls
    /\ ncalls' = ncalls + 1
    /\ sessions_lock = 0
    /\ sessions' = Without(sid)
    /\ IF Lookup(sid) # 0
       THEN /\ sessions_lock' = c
            /\ cur' = [cur EXCEPT ![c] =
                    [NoCall EXCEPT !.op = "close_session", !.sid = sid, !.obj = Lookup(sid)]]
            /\ pc' = [pc EXCEPT ![c] = "close"]
            /\ ret' = [ret EXCEPT ![c] = NoRet]
       ELSE /\ Return(c, [NoRet EXCEPT !.kind = "closed"])
            /\ UNCHANGED sessions_lock
    /\ UNCHANGED <<nobj, sessVars, thrVars, observing, hist>>

\* close(session_id=None): pop(session_id, None); if sess: sess.close();
\* else: every session of list(self._sessions.values()) is closed and the
\* registry cleared.
close(c, sid) ==
    /\ pc[c] = "idle"
    /\ ncalls < MaxCalls
    /\ ncalls' = ncalls + 1
    /\ sessions_lock = 0
    /\ IF Lookup(sid) # 0
       THEN /\ sessions' = Without(sid)
            /\ sessions_lock' = c
            /\ cur' = [cur EXCEPT ![c] =
                    [NoCall EXCEPT !.op = "close", !.sid = sid, !.obj = Lookup(sid)]]
            /\ pc' = [pc EXCEPT ![c] = "close"]
            /\ ret' = [ret EXCEPT ![c] = NoRet]
       ELSE IF Values # <<>>
       THEN /\ sessions_lock' = c
            /\ cur' = [cur EXCEPT ![c] =
                    [NoCall EXCEPT !.op = "close", !.sid = sid, !.obj = Head(Values),
                                   !.todo = Tail(Values), !.all = TRUE]]
            /\ pc' = [pc EXCEPT ![c] = "close"]
            /\ ret' = [ret EXCEPT ![c] = NoRet]
            /\ UNCHANGED sessions
       ELSE /\ sessions' = <<>>
            /\ Return(c, [NoRet EXCEPT !.kind = "closed"])
            /\ UNCHANGED sessions_lock
    /\ UNCHANGED <<nobj, sessVars, thrVars, observing, hist>>

(***************************************************************************)
(* Specifications.                                                         *)
(***************************************************************************)
SessionStep(c) ==
    \/ sess_close(c)
    \/ reset_stream_state(c)
    \/ check_error(c)
    \/ cond_wait(c)
    \/ cond_timeout(c)
    \/ wait_token(c)
    \/ take_token(c)

ProducerStep(t) ==
    \/ run_chunk(t)
    \/ run_final(t)
    \/ run_done(t)

\* Any callers, any calls, the streams of Scenarios.
Next ==
    \/ \E c \in Callers, sid \in SessionIds \cup {NoSessionId}, nr \in BOOLEAN :
            infer_next_token(c, sid, nr)
    \/ \E c \in Callers, sid \in SessionIds : close_session(c, sid)
    \/ \E c \in Callers, sid \in SessionIds \cup {NoSessionId} : close(c, sid)
    \/ \E c \in Callers : pc[c] = "start" /\ \E script \in Scenarios : start_stream(c, script)
    \/ \E c \in Callers : SessionStep(c)
    \/ \E t \in Threads : ProducerStep(t)

Spec == Init /\ [][Next]_vars

\* One caller, one session, one turn: a call with new_request, then pulls
\* without it; any stream of at most MaxChunks chunks.
NextTurn ==
    \/ infer_next_token(1, 1, ncalls = 0)
    \/ pc[1] = "start" /\ \E script \in TurnScripts : start_stream(1, script)
    \/ SessionStep(1)
    \/ ProducerStep(1)

InitTurn ==
    /\ sessions = <<>>
    /\ sessions_lock = 0
    /\ nobj = 0
    /\ token_buffer = [o \in Objs |-> <<>>]
    /\ stream_done = [o \in Objs |-> FALSE]
    /\ stream_error = [o \in Objs |-> 0]
    /\ close_connection = [o \in Objs |-> FALSE]
    /\ stream_thread = [o \in Objs |-> 0]
    /\ nthr = 0
    /\ thr = [t \in Threads |-> Unborn]
    /\ pc = [c \in Callers |-> "idle"]
    /\ cur = [c \in Callers |-> NoCall]
    /\ ret = [c \in Callers |-> NoRet]
    /\ ncalls = 0
    /\ hist = [o \in Objs |-> <<>>]
    /\ observing = TRUE

SpecTurn == InitTurn /\ [][NextTurn]_vars

\* The same with the fairness of the interpreter's thread scheduling: the
\* caller inside a call and the producer keep running while they can take a
\* step.
FairTurn ==
    /\ InitTurn
    /\ [][NextTurn]_vars
    /\ WF_vars(SessionStep(1))
    /\ WF_vars(pc[1] = "start" /\ \E script \in TurnScripts : start_stream(1, script))
    /\ WF_vars(ProducerStep(1))

\* self._close_connection.set(): the statement of close()'s loop body, taken
\* on its own as a request made to a producer that has been started.
set_close_connection(o) ==
    /\ \E t \in Threads : thr[t].pc # "unborn" /\ thr[t].obj = o
    /\ ~close_connection[o]
    /\ close_connection' = SetEvent(close_connection, o)
    /\ UNCHANGED <<regVars, token_buffer, stream_done, stream_error, stream_thread,
                   thrVars, pc, cur, ret, ncalls, observing, hist>>

\* run() as a unit: one session and one turn as in SpecTurn, with the cancel
\* flag as an input of the producer, set at any moment of its run.
NextRun ==
    \/ NextTurn
    \/ set_close_connection(1)

FairRun ==
    /\ InitTurn
    /\ [][NextRun]_vars
    /\ WF_vars(SessionStep(1))
    /\ WF_vars(pc[1] = "start" /\ \E script \in TurnScripts : start_stream(1, script))
    /\ WF_vars(ProducerStep(1))

\* One caller driving sessions through infer_next_token and close_session,
\* one call after the other, with the fairness of the interpreter's thread scheduling: a caller inside a call
\* and a started producer thread keep running while they can take a step.
\* Nothing obliges the caller to make another call.
NextOne ==
    \/ \E sid \in SessionIds \cup {NoSessionId}, nr \in BOOLEAN :
            infer_next_token(1, sid, nr)
    \/ \E sid \in SessionIds : close_session(1, sid)
    \/ pc[1] = "start" /\ \E script \in Scenarios : start_stream(1, script)
    \/ SessionStep(1)
    \/ \E t \in Threads : ProducerStep(t)

FairOne ==
    /\ Init
    /\ [][NextOne]_vars
    /\ WF_vars(SessionStep(1))
    /\ WF_vars(pc[1] = "start" /\ \E script \in Scenarios : start_stream(1, script))
    /\ \A t \in Threads : WF_vars(ProducerStep(t))

(***************************************************************************)
(* What the claims speak about.                                            *)
(***************************************************************************)
\* the token ids a sequence of pull results holds, the sentinel left out
RECURSIVE RealToks(_)
RealToks(h) ==
    IF h = <<>> THEN <<>>
    ELSE IF h[1].kind = "token" /\ h[1].tok # EOS_TOKEN
         THEN <<h[1].tok>> \o RealToks(Tail(h))
         ELSE RealToks(Tail(h))

\* the buffered ids, the sentinel left out
RealIds(buf) == SelectSeq(Ids(buf), LAMBDA x : x # EOS_TOKEN)

\* After the first k chunks of a stream: the accumulated text, the number of
\* ids already emitted, and the concatenation of the suffixes
\* encode(accumulated text)[last_len:] of the fragments so far.
RECURSIVE DiffsAfter(_, _)
DiffsAfter(chunks, k) ==
    IF k = 0 THEN [text |-> <<>>, emitted |-> 0, out |-> <<>>]
    ELSE LET before == DiffsAfter(chunks, k - 1)
             text == IF chunks[k].isstr THEN before.text \o chunks[k].response
                                        ELSE before.text
             toks == Encode(text)
         IN  IF chunks[k].isstr /\ Len(toks) > before.emitted
             THEN [text |-> text, emitted |-> Len(toks),
                   out |-> before.out \o SubSeq(toks, before.emitted + 1, Len(toks))]
             ELSE [before EXCEPT !.text = text]

NumErrors(h) == Cardinality({i \in 1..Len(h) : h[i].kind = "error"})

(***************************************************************************)
(* C1.  One session, one turn (SpecTurn): at every point of every          *)
(* interleaving of the producer and the pulling caller, the token ids the  *)
(* pulls have returned so far, followed by the ids still buffered, are     *)
(* exactly the concatenation of the per-fragment suffixes toks[last_len:]  *)
(* of the fragments processed so far (the sentinel aside): the pulls       *)
(* return them in that order, none twice, none skipped.                    *)
(***************************************************************************)
C1_PullsAreTheDiffs ==
    thr[1].pc # "unborn" =>
        RealToks(hist[1]) \o RealIds(token_buffer[1])
            = DiffsAfter(thr[1].script.chunks, thr[1].pos - 1).out

\* a turn of two publishing fragments, delivered in full
C1_Witness ==
    /\ thr[1].pc = "dead"
    /\ token_buffer[1] = <<>>
    /\ Len(RealToks(hist[1])) >= 2
    /\ RealToks(hist[1]) = DiffsAfter(thr[1].script.chunks, Len(thr[1].script.chunks)).out

(***************************************************************************)
(* C2.  With the stream "Hi", " there", (final, "") (SpecTurn), the pulls  *)
(* of the turn return TokHi, then TokThere, then the sentinel, and the     *)
(* sentinel from then on, under every interleaving.                        *)
(***************************************************************************)
C2_HiThereSequence ==
    thr[1].script = HiThere =>
        \A i \in 1..Len(hist[1]) :
            /\ hist[1][i].kind = "token"
            /\ hist[1][i].tok = (CASE i = 1 -> TokHi
                                   [] i = 2 -> TokThere
                                   [] OTHER -> EOS_TOKEN)

C2_Witness ==
    /\ thr[1].script = HiThere
    /\ Len(hist[1]) >= 3
    /\ pc[1] = "idle"

(***************************************************************************)
(* C3.  Stated as claimed: in every reachable state a session object has   *)
(* at most one live producer thread (FairOne).                                *)
(***************************************************************************)
Producers(o) == {t \in Threads : Alive(t) /\ thr[t].obj = o}

C3_OneLiveProducer == \A o \in Objs : Cardinality(Producers(o)) <= 1

(***************************************************************************)
(* C4.  Stated as claimed: a pull never returns a token appended by a      *)
(* producer older than the one that was the session's current producer     *)
(* when the pull began (threads are numbered in the order they start)      *)
(* (FairOne).                                                              *)
(***************************************************************************)
C4_NoTokenOfPriorTurn ==
    \A c \in Callers :
        (ret[c].kind = "token" /\ ret[c].src # 0 /\ ret[c].turn # 0)
            => ret[c].src >= ret[c].turn

(***************************************************************************)
(* C5.  Stated as claimed: of the pulls of one turn, at most one raises    *)
(* the backend error that the turn's producer recorded (SpecTurn).         *)
(***************************************************************************)
C5_ErrorRaisedOnce == NumErrors(hist[1]) <= 1

(***************************************************************************)
(* C6.  Stated as claimed: a pull without new_request that finds the turn  *)
(* done and the buffer empty returns the sentinel and does not raise       *)
(* (SpecTurn).                                                             *)
(***************************************************************************)
C6_DrainedPullsReturnSentinel ==
    \A c \in Callers :
        (ret[c].kind \in {"token", "error"} /\ ~ret[c].new_request /\ ret[c].drained)
            => (ret[c].kind = "token" /\ ret[c].tok = EOS_TOKEN)

(***************************************************************************)
(* C7.  Stated as claimed: when the backend raises before its first        *)
(* fragment, the first pull of the turn (the one with new_request) raises  *)
(* the error (SpecTurn).                                                   *)
(***************************************************************************)
C7_FirstPullRaises ==
    (thr[1].script = RaiseAtOnce /\ hist[1] # <<>>) => hist[1][1].kind = "error"

(***************************************************************************)
(* C8.  Stated as claimed: no step of a close(session_id) call whose id is *)
(* given and is not in the registry changes the registry or any session's  *)
(* buffer, flags or producer handle (Spec).                                *)
(***************************************************************************)
InCloseOfUnknownId(c) == cur[c].op = "close" /\ cur[c].sid # NoSessionId /\ cur[c].all

C8_CloseUnknownIdIsNoOp ==
    [][\A c \in Callers :
            (InCloseOfUnknownId(c) /\ (pc'[c] # pc[c] \/ cur'[c] # cur[c]))
                => UNCHANGED <<sessions, sessVars>>]_vars

(***************************************************************************)
(* C9.  Stated as claimed: after close_session on a session whose backend  *)
(* emits fragments for ever, a pull for that session id without a new turn *)
(* returns the sentinel (FairOne).                                         *)
(***************************************************************************)
Registered(o) == \E i \in 1..Len(sessions) : sessions[i].obj = o

PullsAfterClose(c) ==
    /\ cur[c].op = "infer"
    /\ ~cur[c].new_request
    /\ \E t \in Threads :
        /\ thr[t].script = Endless
        /\ thr[t].sid = cur[c].sid
        /\ thr[t].obj # cur[c].obj
        /\ ~Registered(thr[t].obj)

C9_PullAfterCloseReturnsSentinel ==
    \A c \in Callers :
        PullsAfterClose(c) ~>
            (pc[c] = "idle" /\ ret[c].kind = "token" /\ ret[c].tok = EOS_TOKEN)

(***************************************************************************)
(* C10.  Stated as claimed: every call of infer_next_token eventually      *)
(* returns to its caller (FairOne).                                        *)
(***************************************************************************)
C10_EveryPullReturns ==
    \A c \in Callers : (cur[c].op = "infer") ~> (pc[c] = "idle")

(***************************************************************************)
(* C11.  A call of infer_next_token without a session id raises the usage  *)
(* error in the step of the call itself, and that step changes neither the *)
(* registry nor any session's state nor the set of producer threads; no    *)
(* session is ever registered and no producer ever started for the missing *)
(* id (Spec).                                                              *)
(***************************************************************************)
\* c makes a call that raises the usage error, in this step
RaisesUsage(c) ==
    /\ pc[c] = "idle"
    /\ ncalls' # ncalls
    /\ ret'[c].kind = "usage"
    /\ \A d \in Callers \ {c} : pc'[d] = pc[d] /\ cur'[d] = cur[d] /\ ret'[d] = ret[d]

NothingForMissingId ==
    /\ \A i \in 1..Len(sessions) : sessions[i].id # NoSessionId
    /\ \A t \in Threads : thr[t].pc # "unborn" => thr[t].sid # NoSessionId
    /\ \A c \in Callers : ret[c].kind = "usage" => pc[c] = "idle"

C11_UsageErrorChangesNothing ==
    /\ []NothingForMissingId
    /\ [][\A c \in Callers :
            RaisesUsage(c) =>
                /\ pc'[c] = "idle"
                /\ UNCHANGED <<regVars, sessVars, thrVars>>]_vars

\* the usage error has been raised while a session with a running producer
\* is registered
C11_Witness ==
    \E c \in Callers :
        /\ ret[c].kind = "usage"
        /\ sessions # <<>>
        /\ \E t \in Threads : Alive(t)

(***************************************************************************)
(* C12.  Whenever an object enters the registry it is a newly constructed  *)
(* OlmSession: empty buffer, no error, done and cancel unset, no producer  *)
(* handle; so after close_session(id) a later call with that id works on   *)
(* such an object.  Every buffered id, every stored error and every        *)
(* result a call returns was produced by a producer of the very object the *)
(* call works on, never by a producer of a closed session (FairOne).       *)
(***************************************************************************)
Fresh(o) ==
    /\ token_buffer[o] = <<>>
    /\ stream_error[o] = 0
    /\ ~stream_done[o]
    /\ ~close_connection[o]
    /\ stream_thread[o] = 0

ObservedOwn ==
    /\ \A o \in Objs :
        /\ \A i \in 1..Len(token_buffer[o]) : thr[token_buffer[o][i].src].obj = o
        /\ stream_error[o] # 0 => thr[stream_error[o]].obj = o
    /\ \A c \in Callers :
        /\ ret[c].src # 0 => thr[ret[c].src].obj = ret[c].obj
        /\ cur[c].op = "infer" => Lookup(cur[c].sid) = cur[c].obj

C12_ClosedSessionIsReplacedByFresh ==
    /\ []ObservedOwn
    /\ [][\A o \in Objs :
            (~Registered(o) /\ Registered(o)')
                => (o = nobj + 1 /\ nobj' = o /\ Fresh(o) /\ Fresh(o)')]_vars

\* a session was closed while its producer was running, and a later call
\* with the same id has returned a token of the new session's own producer
C12_Witness ==
    \E t \in Threads :
        /\ Alive(t)
        /\ ~Registered(thr[t].obj)
        /\ ret[1].kind = "token"
        /\ ret[1].src # 0
        /\ thr[ret[1].src].sid = thr[t].sid
        /\ ret[1].obj # thr[t].obj

(***************************************************************************)
(* C13.  Under every interleaving of two callers (Spec): the registry      *)
(* holds at most one entry per session id and no object under two ids, and *)
(* every call under way whose session has not been closed meanwhile works  *)
(* on the one object registered for its id; so concurrent calls with the   *)
(* same id work on the same object.                                        *)
(***************************************************************************)
C13_GetOrCreateIdempotent ==
    /\ \A i, j \in 1..Len(sessions) :
            (sessions[i].id = sessions[j].id \/ sessions[i].obj = sessions[j].obj) => i = j
    /\ \A c \in Callers :
            (cur[c].op = "infer" /\ Registered(cur[c].obj))
                => Lookup(cur[c].sid) = cur[c].obj
    /\ \A c, d \in Callers :
            (/\ cur[c].op = "infer" /\ cur[d].op = "infer"
             /\ cur[c].sid = cur[d].sid
             /\ Registered(cur[c].obj) /\ Registered(cur[d].obj))
                => cur[c].obj = cur[d].obj

\* two calls with the same id under way at once, on the same object, while
\* another id is registered too
C13_Witness ==
    /\ cur[1].op = "infer" /\ cur[2].op = "infer"
    /\ cur[1].sid = cur[2].sid
    /\ cur[1].obj = cur[2].obj
    /\ Registered(cur[1].obj)
    /\ Len(sessions) = 2

(***************************************************************************)
(* C14.  Stated as claimed: when close() of a session has left its loop    *)
(* and goes on to reset the session, the cancel flag has been set for      *)
(* every producer of the session that is still reading its stream          *)
(* (FairOne).                                                              *)
(***************************************************************************)
\* a producer inside the for loop of run()
InLoop(t) == thr[t].pc \in {"iter", "final"}

C14_CloseCancelsRunningProducer ==
    \A c \in Callers :
        pc[c] = "reset" =>
            \A t \in Producers(cur[c].obj) : InLoop(t) => close_connection[cur[c].obj]

(***************************************************************************)
(* C15.  Stated as claimed: when a pull has returned the sentinel, either  *)
(* the sentinel was appended by the producer that was the session's        *)
(* current one when the pull began, or that producer has left its loop;    *)
(* turns whose backend stalls are left aside (FairOne).                    *)
(***************************************************************************)
C15_SentinelOnlyAtEndOfTurn ==
    \A c \in Callers :
        (/\ ret[c].kind = "token" /\ ret[c].tok = EOS_TOKEN
         /\ ret[c].turn # 0
         /\ thr[ret[c].turn].script.end # "stall")
            => (ret[c].src = ret[c].turn \/ ~InLoop(ret[c].turn))

(***************************************************************************)
(* C16.  Stated as claimed: when the producer of a turn has read its       *)
(* stream to the end without an exception, the ids it published (those     *)
(* pulled so far, then those still buffered; the sentinel aside) are       *)
(* encode of the whole accumulated text (SpecTurn).                        *)
(***************************************************************************)
C16_PublishedIsEncodeOfText ==
    (thr[1].pc = "dead" /\ thr[1].script.end = "stop")
        => RealToks(hist[1]) \o RealIds(token_buffer[1]) = Encode(thr[1].accum_text)

(***************************************************************************)
(* C17.  Stated as claimed: ids the producer published and that are still  *)
(* buffered get pulled; the backend error is raised by at most one pull    *)
(* before they are, so that a caller that keeps pulling receives them      *)
(* (SpecTurn).                                                             *)
(***************************************************************************)
C17_BufferedTokensAreDelivered ==
    RealIds(token_buffer[1]) # <<>> => NumErrors(hist[1]) <= 1

(***************************************************************************)
(* C18.  Stated as claimed: in the sequence of everything the producer of  *)
(* a turn has appended to the buffer (what pulls have taken from it, then  *)
(* what it still holds), the sentinel occurs only as the last element      *)
(* (SpecTurn).                                                             *)
(***************************************************************************)
\* the ids pulls have taken out of the deque, in order
RECURSIVE TakenIds(_)
TakenIds(h) ==
    IF h = <<>> THEN <<>>
    ELSE IF h[1].kind = "token" /\ h[1].src # 0
         THEN <<h[1].tok>> \o TakenIds(Tail(h))
         ELSE TakenIds(Tail(h))

Appended(o) == TakenIds(hist[o]) \o Ids(token_buffer[o])

C18_SentinelIsLastAppended ==
    \A i \in 1..Len(Appended(1)) :
        Appended(1)[i] = EOS_TOKEN => i = Len(Appended(1))

(***************************************************************************)
(* C19.  One turn (FairTurn).  When the producer has recorded the          *)
(* backend's exception it marks the session done; a pull that is in the    *)
(* wait loop on an empty buffer at that moment leaves the loop and returns *)
(* the sentinel, without raising; and the pull after a pull that returned  *)
(* in this way raises the error.                                           *)
(***************************************************************************)
\* the pull is in the wait loop, the buffer is empty, the exception has been
\* stored and done is not yet set
BlockedAtError(c) ==
    /\ pc[c] \in {"wait", "sleep"}
    /\ token_buffer[cur[c].obj] = <<>>
    /\ ~stream_done[cur[c].obj]
    /\ stream_error[cur[c].obj] # 0

\* a pull result that is the sentinel for a done session with an empty buffer
IsBareSentinel(r) == r.kind = "token" /\ r.tok = EOS_TOKEN /\ r.src = 0

Blocked(c) == pc[c] \in {"wait", "sleep"} /\ Waiting(cur[c].obj)

\* the bounds of the model leave room for the call
RoomFor(sid, new_request) ==
    /\ ncalls < MaxCalls
    /\ new_request => nthr + Cardinality(Starting) < MaxThreads
    /\ Lookup(sid) # 0 \/ nobj < MaxObjs

C20_BlockedPullHoldsNoLock ==
    \A c \in Callers :
        Blocked(c) =>
            /\ sessions_lock # c
            /\ \A d \in Callers \ {c} :
                /\ (pc[d] = "idle" /\ sessions_lock \in {0, c}) =>
                    \A sid \in SessionIds :
                        /\ \A nr \in BOOLEAN :
                                RoomFor(sid, nr) => ENABLED infer_next_token(d, sid, nr)
                        /\ ncalls < MaxCalls => ENABLED close_session(d, sid)
                /\ (pc[d] = "start" /\ cur[d].obj # cur[c].obj) =>
                        ENABLED (\E script \in Scenarios : start_stream(d, script))
                /\ (pc[d] \notin {"idle", "start", "wait", "sleep"} /\ cur[d].obj # cur[c].obj) =>
                        ENABLED SessionStep(d)

\* caller 1 is blocked on a session whose backend is stalled, and caller 2
\* has meanwhile started a turn on another session and pulled a token of it
C20_Witness ==
    /\ Blocked(1)
    /\ cur[1].thread # 0
    /\ thr[cur[1].thread].script = Stalled
    /\ ret[2].kind = "token"
    /\ ret[2].tok # EOS_TOKEN
    /\ ret[2].obj # cur[1].obj
    /\ ret[2].thread > cur[1].thread

(***************************************************************************)
(* C21.  run() with the cancel flag as its input (FairRun).  A step in     *)
(* which the producer receives a fragment while the flag is set appends    *)
(* the sentinel and nothing else, consumes nothing of the fragment (no     *)
(* text accumulated, no id published, the stream position kept), leaves    *)
(* the loop and stores no error; the producer then sets done and ends, and *)
(* from the sentinel on it appends nothing and stores no error.            *)
(***************************************************************************)
\* the stream has a fragment for the producer
HasFragment(t) == thr[t].pos <= Len(thr[t].script.chunks) \/ thr[t].script.end = "loop"

\* t takes a step of its loop with a fragment at hand and the flag set
ReceivesWhenCancelled(t) ==
    /\ thr[t].pc = "iter"
    /\ HasFragment(t)
    /\ close_connection[thr[t].obj]
    /\ thr'[t] # thr[t]

\* t has left its loop through the cancellation branch: with a fragment at
\* hand that it did not consume
LeftByCancel(t) ==
    /\ thr[t].pc \in {"setdone", "dead"}
    /\ HasFragment(t)

C21_CancelledProducerStops ==
    /\ [][\A t \in Threads :
            ReceivesWhenCancelled(t) =>
                /\ token_buffer'[thr[t].obj]
                        = Append(token_buffer[thr[t].obj], [id |-> EOS_TOKEN, src |-> t])
                /\ thr'[t] = [thr[t] EXCEPT !.pc = "setdone"]
                /\ stream_error' = stream_error]_vars
    /\ [][\A t \in Threads :
            LeftByCancel(t) =>
                /\ LeftByCancel(t)'
                /\ \A i \in 1..Len(token_buffer'[thr[t].obj]) :
                        token_buffer'[thr[t].obj][i] \in
                            {token_buffer[thr[t].obj][j] : j \in 1..Len(token_buffer[thr[t].obj])}
                /\ stream_error'[thr[t].obj] = 0]_vars
    /\ \A t \in Threads :
            LeftByCancel(t) ~> (thr[t].pc = "dead" /\ stream_done[thr[t].obj])

\* a producer that had published an id was cancelled with fragments still to
\* come; it has ended, done is set, no error is stored
C21_Witness ==
    /\ LeftByCancel(1)
    /\ thr[1].pc = "dead"
    /\ thr[1].last_len > 0
    /\ stream_done[1]
    /\ stream_error[1] = 0

(***************************************************************************)
(* C22.  One turn whose stream ends without a fragment marked final        *)
(* (FairTurn).  The producer sets done; every pull of the turn returns;    *)
(* the pulls return ids, never an error; a pull returns the sentinel only  *)
(* when the session is done and everything published has been pulled, and  *)
(* every pull after it returns the sentinel again.                         *)
(***************************************************************************)
\* the producer's stream stops by itself and marks no fragment final
EndsWithoutFinal(t) ==
    /\ thr[t].pc # "unborn"
    /\ thr[t].script.end = "stop"
    /\ \A k \in 1..Len(thr[t].script.chunks) : ~thr[t].script.chunks[k].done

C22_ExhaustedStreamIsDone ==
    /\ EndsWithoutFinal(1) ~> (thr[1].pc = "dead" /\ stream_done[1])
    /\ \A c \in Callers :
            (EndsWithoutFinal(1) /\ cur[c].op = "infer") ~> (pc[c] = "idle")
    /\ [](EndsWithoutFinal(1) =>
            \A i \in 1..Len(hist[1]) :
                /\ hist[1][i].kind = "token"
                /\ hist[1][i].tok = EOS_TOKEN =>
                        /\ IsBareSentinel(hist[1][i])
                        /\ stream_done[1]
                        /\ token_buffer[1] = <<>>
                        /\ RealToks(hist[1])
                                = DiffsAfter(thr[1].script.chunks,
                                             Len(thr[1].script.chunks)).out
                        /\ \A j \in i..Len(hist[1]) : IsBareSentinel(hist[1][j]))

\* the stream "H", (no text) has ended; the pulls returned the id of "H" and
\* then the sentinel twice
C22_Witness ==
    /\ thr[1].script = NoFinal
    /\ thr[1].pc = "dead"
    /\ Len(hist[1]) = 3
    /\ hist[1][1].tok = 39
    /\ IsBareSentinel(hist[1][2])
    /\ IsBareSentinel(hist[1][3])

(***************************************************************************)
(* C23.  Stated as claimed: every step that changes a session's buffer,    *)
(* its done flag, its error, its cancel flag or its producer handle is a   *)
(* block under that session's _buffer_lock (SpecTurn).                     *)
(***************************************************************************)
\* The step is one of the `with self._buffer_lock:` blocks on session o: the
\* clear() of _reset_stream_state, an append or extend in the producer's
\* loop, the popleft of a pull.
UnderBufferLock(o) ==
    \/ \E c \in Callers :
            /\ cur[c].obj = o
            /\ \/ pc[c] = "close" /\ pc'[c] = "reset" /\ sess_close(c)
               \/ take_token(c)
    \/ \E t \in Threads :
            /\ thr[t].obj = o
            /\ \/ run_final(t)
               \/ HasFragment(t) /\ run_chunk(t)

C23_MutationsUnderLock ==
    [][\A o \in Objs :
            (\/ token_buffer'[o] # token_buffer[o]
             \/ stream_done'[o] # stream_done[o]
             \/ stream_error'[o] # stream_error[o]
             \/ close_connection'[o] # close_connection[o]
             \/ stream_thread'[o] # stream_thread[o])
                => UnderBufferLock(o)]_vars

(***************************************************************************)
(* C24.  Stated as claimed: no pull is left inside                         *)
(* _token_available.wait() once its session is done or has an error        *)
(* stored: the step that sets done or stores the error notifies the        *)
(* waiters, as an append does (FairTurn).                                  *)
(***************************************************************************)
C24_WaitersAreNotified ==
    \A c \in Callers :
        pc[c] = "sleep" =>
            (~stream_done[cur[c].obj] /\ stream_error[cur[c].obj] = 0)

=============================================================================
